---- MODULE Spec2Model ----
(***************************************************************************)
(* Fuel Farm pipeline of src/app_fuel11.py (page_fuel): load of the two    *)
(* CSV files, column resolution, numeric coercion, KPI computation and the *)
(* order in which one view pass renders its elements.                      *)
(*                                                                         *)
(* Text is a sequence of one-character strings, so that lowercasing,       *)
(* substring tests, trimming and parsing are computed.  A float is a       *)
(* record [nan, n, d]: NaN, or the rational n/d in lowest terms (d > 0);   *)
(* binary rounding of floats is not modelled.  A date is a day number that *)
(* is turned into its calendar fields; sort_values, called without a       *)
(* stable kind, may return the rows of one date in any order.              *)
(***************************************************************************)
EXTENDS Integers, Sequences, FiniteSets, TLC

(* ------------------------------ text ---------------------------------- *)

UpperAlpha == <<"A","B","C","D","E","F","G","H","I","J","K","L","M",
                "N","O","P","Q","R","S","T","U","V","W","X","Y","Z">>

LowerAlpha == <<"a","b","c","d","e","f","g","h","i","j","k","l","m",
                "n","o","p","q","r","s","t","u","v","w","x","y","z">>

DigitChars == <<"0","1","2","3","4","5","6","7","8","9">>

UpperSet == {UpperAlpha[i] : i \in 1..26}

\* the lowercase letter of every uppercase letter
LowerOf == [c \in UpperSet |-> LowerAlpha[CHOOSE i \in 1..26 : UpperAlpha[i] = c]]

\* str.lower() on one character
LowerChar(c) == IF c \in UpperSet THEN LowerOf[c] ELSE c

\* str.lower()
Lower(s) == [i \in 1..Len(s) |-> LowerChar(s[i])]

\* the Python test `sub in s`
Contains(sub, s) ==
    \E i \in 0..(Len(s) - Len(sub)) : SubSeq(s, i + 1, i + Len(sub)) = sub

\* str.strip(): leading and trailing blanks removed
RECURSIVE LStrip(_)
LStrip(s) == IF s # <<>> /\ Head(s) = " " THEN LStrip(Tail(s)) ELSE s

RECURSIVE RStrip(_)
RStrip(s) ==
    IF s # <<>> /\ s[Len(s)] = " " THEN RStrip(SubSeq(s, 1, Len(s) - 1)) ELSE s

Strip(s) == RStrip(LStrip(s))

\* str.replace(',', '')
RECURSIVE RemoveCommas(_)
RemoveCommas(s) ==
    IF s = <<>> THEN <<>>
    ELSE IF Head(s) = "," THEN RemoveCommas(Tail(s))
    ELSE <<Head(s)>> \o RemoveCommas(Tail(s))

(* ------------------------------ floats -------------------------------- *)

Abs(x) == IF x < 0 THEN -x ELSE x

RECURSIVE Gcd(_, _)
Gcd(a, b) == IF b = 0 THEN a ELSE Gcd(b, a % b)

NaN == [nan |-> TRUE, n |-> 0, d |-> 1]

\* the float n/d, d # 0
Rat(n, d) ==
    LET g == Gcd(Abs(n), Abs(d))
        s == IF d < 0 THEN -1 ELSE 1
    IN  [nan |-> FALSE, n |-> (s * n) \div g, d |-> (s * d) \div g]

Num(k) == Rat(k, 1)

IsNaN(x) == x.nan

FSub(x, y) == IF x.nan \/ y.nan THEN NaN ELSE Rat(x.n * y.d - y.n * x.d, x.d * y.d)
FAdd(x, y) == IF x.nan \/ y.nan THEN NaN ELSE Rat(x.n * y.d + y.n * x.d, x.d * y.d)
FMul(x, y) == IF x.nan \/ y.nan THEN NaN ELSE Rat(x.n * y.n, x.d * y.d)
\* x / y for y # 0
FDiv(x, y) == IF x.nan \/ y.nan THEN NaN ELSE Rat(x.n * y.d, x.d * y.n)

\* x > y as floats compare: FALSE when either is NaN
FGt(x, y) == ~x.nan /\ ~y.nan /\ x.n * y.d > y.n * x.d

\* the builtin max(x, y): keeps x unless y > x
PyMax(x, y) == IF FGt(y, x) THEN y ELSE x

(* ------------------------- numeric coercion --------------------------- *)

DigitSet == {DigitChars[i] : i \in 1..10}
DigitOf == [c \in DigitSet |-> (CHOOSE i \in 1..10 : DigitChars[i] = c) - 1]

IsDigit(c) == c \in DigitSet
DigitVal(c) == DigitOf[c]

RECURSIVE Pow10(_)
Pow10(k) == IF k = 0 THEN 1 ELSE 10 * Pow10(k - 1)

\* value of a sequence of digits read as a decimal integer
RECURSIVE DigitsValue(_)
DigitsValue(s) ==
    IF s = <<>> THEN 0
    ELSE 10 * DigitsValue(SubSeq(s, 1, Len(s) - 1)) + DigitVal(s[Len(s)])

\* digits with at most one decimal point and at least one digit
IsDecimal(s) ==
    /\ \A i \in 1..Len(s) : IsDigit(s[i]) \/ s[i] = "."
    /\ Cardinality({i \in 1..Len(s) : s[i] = "."}) <= 1
    /\ \E i \in 1..Len(s) : IsDigit(s[i])

DecimalValue(s) ==
    LET dots == {i \in 1..Len(s) : s[i] = "."}
        p    == IF dots = {} THEN Len(s) + 1 ELSE CHOOSE i \in dots : TRUE
        ip   == SubSeq(s, 1, p - 1)
        fp   == SubSeq(s, p + 1, Len(s))
    IN  Rat(DigitsValue(ip) * Pow10(Len(fp)) + DigitsValue(fp), Pow10(Len(fp)))

\* pd.to_numeric(text, errors='coerce') on one string: blanks around the
\* number are skipped, an optional sign, a decimal numeral; anything else,
\* the empty string included, is NaN
ToNumericCoerce(s) ==
    LET t    == Strip(s)
        neg  == t # <<>> /\ Head(t) = "-"
        sgn  == t # <<>> /\ (Head(t) = "-" \/ Head(t) = "+")
        body == IF sgn THEN Tail(t) ELSE t
    IN  IF IsDecimal(body)
        THEN (IF neg THEN FSub(Num(0), DecimalValue(body)) ELSE DecimalValue(body))
        ELSE NaN

\* the coercion without the removal of commas
NormalizeText_KeepCommas(s) == ToNumericCoerce(Strip(s))

\* pd.to_numeric(col.astype(str).str.replace(',', '').str.strip(), errors='coerce')
\* on one text cell
NormalizeText(s) == ToNumericCoerce(Strip(RemoveCommas(s)))

(* --------------------------- column names ----------------------------- *)

\* the exact names the code reads by name
DIESEL_EXACT == <<"D","i","e","s","e","l"," ","I","s","s","u","e","d","/","U","s","e","d"," ","(","L","i","t","e","r","s",")">>
BALANCE_COL == <<"B","a","l","a","n","c","e"," ","(","L","i","t","e","r","s",")">>
MORNING_COL == <<"M","o","r","n","i","n","g"," ","D","i","p"," ","R","e","a","d","i","n","g"," ","(","L","i","t","e","r","s",")">>
EVENING_COL == <<"E","v","e","n","i","n","g"," ","D","i","p"," ","R","e","a","d","i","n","g"," ","(","L","i","t","e","r","s",")">>
EQUIPMENT_NAME == <<"E","q","u","i","p","m","e","n","t"," ","N","a","m","e">>
UNKNOWN == <<"U","n","k","n","o","w","n">>

num_cols == {MORNING_COL, EVENING_COL, DIESEL_EXACT, BALANCE_COL}

\* the substrings the resolution looks for
kwDiesel == <<"d","i","e","s","e","l">>
kwIssued == <<"i","s","s","u","e","d">>
kwUsed == <<"u","s","e","d">>
kwFuel == <<"f","u","e","l">>
kwLts == <<"(","l","t","s",")">>
kwL == <<"l">>
kwComment == <<"c","o","m","m","e","n","t">>
kwRemark == <<"r","e","m","a","r","k">>
kwFleet == <<"f","l","e","e","t">>

\* other header spellings used as inputs
hDieselUsed == <<"D","i","e","s","e","l"," ","U","s","e","d">>
hDieselIssuedPadded == <<" ","D","I","E","S","E","L"," ","I","S","S","U","E","D"," ">>
hDieselStock == <<"D","i","e","s","e","l"," ","S","t","o","c","k">>
hFleetNo == <<"F","l","e","e","t"," ","N","o">>
hFuelIssued == <<"F","u","e","l"," ","I","s","s","u","e","d"," ","(","L","t","s",")">>
hFuelType == <<"F","u","e","l"," ","T","y","p","e">>
hComment == <<"C","o","m","m","e","n","t">>
hRemarks == <<"R","E","M","A","R","K","S">>
hOperator == <<"O","p","e","r","a","t","o","r">>

(* -------------------------- column resolution ------------------------- *)

\* 'diesel' in c.lower() and ('issued' in c.lower() or 'used' in c.lower())
MatchesDiesel(c) ==
    LET l == Lower(c)
    IN  Contains(kwDiesel, l) /\ (Contains(kwIssued, l) \/ Contains(kwUsed, l))

\* 'fuel' in c.lower() and ('issued' in c.lower() or '(lts)' in c.lower() or 'l' in c.lower())
MatchesFuel(c) ==
    LET l == Lower(c)
    IN  Contains(kwFuel, l) /\ (Contains(kwIssued, l) \/ Contains(kwLts, l) \/ Contains(kwL, l))

\* 'comment' in c.lower() or 'remark' in c.lower()
MatchesComment(c) ==
    LET l == Lower(c) IN Contains(kwComment, l) \/ Contains(kwRemark, l)

\* 'fleet' in c.lower()
MatchesFleet(c) == Contains(kwFleet, Lower(c))

Intents == {"diesel", "fuel", "comment", "fleet"}

Matches(intent, c) ==
    CASE intent = "diesel"  -> MatchesDiesel(c)
      [] intent = "fuel"    -> MatchesFuel(c)
      [] intent = "comment" -> MatchesComment(c)
      [] intent = "fleet"   -> MatchesFleet(c)

\* [c for c in df.columns if <intent>]
RECURSIVE Candidates(_, _)
Candidates(intent, cols) ==
    IF cols = <<>> THEN <<>>
    ELSE (IF Matches(intent, Head(cols)) THEN <<Head(cols)>> ELSE <<>>)
         \o Candidates(intent, Tail(cols))

\* None, the unresolved result
None == <<>>

\* the last candidate instead of the first
LastOrNone(cands) == IF cands # <<>> THEN cands[Len(cands)] ELSE None

\* candidates[0] if candidates else None
FirstOrNone(cands) == IF cands # <<>> THEN cands[1] ELSE None

Resolve(intent, cols) == FirstOrNone(Candidates(intent, cols))

\* clean_cols: every header stripped
clean_cols(cols) == [i \in 1..Len(cols) |-> Strip(cols[i])]

(* ------------------------------ bounds -------------------------------- *)

\* most data rows in the dipping file
MaxRows == 2

(* --------------------------- program constants ------------------------ *)

tank_capacity == 60000
low_balance_threshold == 5000

(* -------------------------------- dates ------------------------------- *)

\* a date is kept as its day number, 1 for the first of January of EpochYear;
\* parse_dates turns the Date text into a Timestamp with these calendar fields
EpochYear == 2025

IsLeap(y) == (y % 4 = 0 /\ y % 100 # 0) \/ y % 400 = 0

DaysInMonth(y, m) ==
    IF m = 2 THEN (IF IsLeap(y) THEN 29 ELSE 28)
    ELSE IF m \in {4, 6, 9, 11} THEN 30 ELSE 31

RECURSIVE CalendarFrom(_, _, _)
CalendarFrom(y, m, n) ==
    IF n > DaysInMonth(y, m)
    THEN (IF m = 12 THEN CalendarFrom(y + 1, 1, n - DaysInMonth(y, m))
                    ELSE CalendarFrom(y, m + 1, n - DaysInMonth(y, m)))
    ELSE [year |-> y, month |-> m, day |-> n]

\* the Timestamp of day number n
Timestamp(n) == CalendarFrom(EpochYear, 1, n)

MonthNames == <<"January", "February", "March", "April", "May", "June", "July",
                "August", "September", "October", "November", "December">>

\* Series.dt.month_name() on one date
month_name(n) == MonthNames[Timestamp(n).month]

\* the week index with the days 0-6 of the month in the first week
WeekOfMonth_DayNotShifted(n) == (Timestamp(n).day \div 7) + 1

\* lambda d: (d.day - 1) // 7 + 1
WeekOfMonth(n) == ((Timestamp(n).day - 1) \div 7) + 1

RECURSIVE DaysBeforeMonth(_, _)
DaysBeforeMonth(y, m) ==
    IF m = 1 THEN 0 ELSE DaysBeforeMonth(y, m - 1) + DaysInMonth(y, m - 1)

\* the number of ISO weeks of year y
WeeksInYear(y) ==
    LET p(x) == (x + (x \div 4) - (x \div 100) + (x \div 400)) % 7
    IN  IF p(y) = 4 \/ p(y - 1) = 3 THEN 53 ELSE 52

\* Series.dt.isocalendar().week on one date: from the day of the year and
\* the ISO weekday, 1 for Monday .. 7 for Sunday (the first of January of
\* EpochYear is a Wednesday)
isocalendar_week(n) ==
    LET t          == Timestamp(n)
        dayofyear  == DaysBeforeMonth(t.year, t.month) + t.day
        isoweekday == ((n + 1) % 7) + 1
        w          == (dayofyear - isoweekday + 10) \div 7
    IN  IF w < 1 THEN WeeksInYear(t.year - 1)
        ELSE IF w > WeeksInYear(t.year) THEN 1
        ELSE w

(* ------------------------------- tables ------------------------------- *)

\* a cell of a loaded table: a float (NaN for a missing value) or text
NumCell(x) == [isnum |-> TRUE, num |-> x, str |-> <<>>]
StrCell(s) == [isnum |-> FALSE, num |-> NaN, str |-> s]

\* the file is not there
Absent == [present |-> FALSE, cols |-> <<>>, rows |-> <<>>]

NoTable == [cols |-> <<>>, rows |-> <<>>]

NoEquipment == [cols |-> <<>>, rows |-> <<>>, fuel_col |-> None, comment_col |-> None,
                fleet_col |-> None, fleet_from |-> None]

\* position of column c among cols, 0 when there is none
ColIndex(cols, c) ==
    IF \E i \in 1..Len(cols) : cols[i] = c
    THEN CHOOSE i \in 1..Len(cols) : cols[i] = c
    ELSE 0

HasCol(df, c) == ColIndex(df.cols, c) # 0

\* df[c] as the sequence of its cells
Column(df, c) ==
    [i \in 1..Len(df.rows) |-> df.rows[i].cells[ColIndex(df.cols, c)]]

\* pd.read_csv leaves a field numeric when it parses as a number; an empty
\* field is a missing value
CsvNumeric(s) == s = <<>> \/ ~IsNaN(ToNumericCoerce(s))

\* pd.read_csv: a column whose fields are all numeric or empty becomes a
\* float column, any other column keeps its text (and NaN for empty fields)
ReadCsvCell(colcells, s) ==
    IF s = <<>> THEN NumCell(NaN)
    ELSE IF \A i \in 1..Len(colcells) : CsvNumeric(colcells[i])
         THEN NumCell(ToNumericCoerce(s))
         ELSE StrCell(s)

read_csv(file) ==
    [cols |-> file.cols,
     rows |-> [i \in 1..Len(file.rows) |->
                 [date  |-> file.rows[i].date,
                  cells |-> [j \in 1..Len(file.cols) |->
                               ReadCsvCell([k \in 1..Len(file.rows) |-> file.rows[k].cells[j]],
                                           file.rows[i].cells[j])]]]]

\* pd.to_numeric(cell.astype(str).str.replace(',', '').str.strip(), errors='coerce'):
\* a float prints and parses back to itself, NaN prints as 'nan' and parses to NaN
NormalizeCell(c) == IF c.isnum THEN c ELSE NumCell(NormalizeText(c.str))

\* for col in num_cols: if col in dipping.columns: dipping[col] = pd.to_numeric(...)
NormalizeNumCols(df) ==
    [cols |-> df.cols,
     rows |-> [i \in 1..Len(df.rows) |->
                 [date  |-> df.rows[i].date,
                  cells |-> [j \in 1..Len(df.cols) |->
                               IF df.cols[j] \in num_cols
                               THEN NormalizeCell(df.rows[i].cells[j])
                               ELSE df.rows[i].cells[j]]]]]

\* the orders in which argsort may return the rows: ascending by date, the
\* rows of one date in any order (kind='quicksort' is not a stable sort)
SortOrders(rows) ==
    {p \in Permutations(1..Len(rows)) :
        \A i \in 1..(Len(rows) - 1) : rows[p[i]].date <= rows[p[i + 1]].date}

\* the rows in file order, not sorted at all
SortOutcomes_FileOrder(rows) == {rows}

\* df.sort_values('Date').reset_index(drop=True): every table the call may return
SortOutcomes(rows) ==
    {[i \in 1..Len(rows) |-> rows[p[i]]] : p \in SortOrders(rows)}

ISOWEEK_COL == <<"I","S","O","W","e","e","k">>
MONTHNAME_COL == <<"M","o","n","t","h","N","a","m","e">>

\* df[name] = vals: the column replaced when there is one, appended when not
SetColumn(df, name, vals) ==
    IF HasCol(df, name)
    THEN [df EXCEPT !.rows = [i \in 1..Len(df.rows) |->
                                [df.rows[i] EXCEPT !.cells[ColIndex(df.cols, name)] = vals[i]]]]
    ELSE [cols |-> Append(df.cols, name),
          rows |-> [i \in 1..Len(df.rows) |->
                      [df.rows[i] EXCEPT !.cells = Append(df.rows[i].cells, vals[i])]]]

\* dipping_df['ISOWeek'] = ...isocalendar().week; dipping_df['MonthName'] = ...month_name()
\* (a month name is kept as a text of one piece)
AddPeriodColumns(df) ==
    LET d1 == SetColumn(df, ISOWEEK_COL,
                        [i \in 1..Len(df.rows) |-> NumCell(Num(isocalendar_week(df.rows[i].date)))])
    IN  SetColumn(d1, MONTHNAME_COL,
                  [i \in 1..Len(df.rows) |-> StrCell(<<month_name(df.rows[i].date)>>)])

FUEL_ISSUED_COL == <<"_","_","f","u","e","l","_","i","s","s","u","e","d","_","_">>
COMMENT_COL == <<"_","_","c","o","m","m","e","n","t","_","_">>
FLEET_COL == <<"_","_","f","l","e","e","t","_","_">>

cNanText == <<"n","a","n">>

\* str(k) for an int k
RECURSIVE NatText(_)
NatText(k) ==
    IF k < 10 THEN <<DigitChars[k + 1]>>
    ELSE NatText(k \div 10) \o <<DigitChars[(k % 10) + 1]>>

IntText(k) == IF k < 0 THEN <<"-">> \o NatText(-k) ELSE NatText(k)

\* the digits of r/d after the point, at most k of them
RECURSIVE FracText(_, _, _)
FracText(r, d, k) ==
    IF r = 0 \/ k = 0 THEN <<>>
    ELSE <<DigitChars[((r * 10) \div d) + 1]>> \o FracText((r * 10) % d, d, k - 1)

\* str(x) for a float x below 1e16: 'nan', '2000.0', '-0.5'
FloatText(x) ==
    IF x.nan THEN cNanText
    ELSE LET a == Abs(x.n)
         IN  (IF x.n < 0 THEN <<"-">> ELSE <<>>) \o NatText(a \div x.d) \o <<".">> \o
             (IF a % x.d = 0 THEN <<"0">> ELSE FracText(a % x.d, x.d, 17))

\* a field pd.read_csv reads as an int: a number written without a point
IsIntText(s) == ~IsNaN(ToNumericCoerce(s)) /\ \A k \in 1..Len(s) : s[k] # "."

\* the fields of column c as the file writes them
RawColumn(file, c) ==
    [i \in 1..Len(file.rows) |-> file.rows[i].cells[ColIndex(file.cols, c)]]

\* Series.astype(str) on record i of a column read from these fields: an
\* int64 column prints its ints, a float64 column its floats (NaN as 'nan'),
\* a text column keeps its texts and prints a missing one as 'nan'
AstypeStr(fields, i) ==
    IF \A k \in 1..Len(fields) : CsvNumeric(fields[k])
    THEN IF \A k \in 1..Len(fields) : IsIntText(fields[k])
         THEN IntText(ToNumericCoerce(fields[i]).n)
         ELSE FloatText(ToNumericCoerce(fields[i]))
    ELSE IF fields[i] = <<>> THEN cNanText ELSE fields[i]

\* the comment of a record left empty when there is no comment column
DefaultComment_Empty == <<>>

\* equipment['__comment__'] = 'Unknown'
DefaultComment == UNKNOWN

\* the column __fleet__ is copied from: fleet_col, else 'Equipment Name'
FleetSource(fleet) == IF fleet # None THEN fleet ELSE EQUIPMENT_NAME

\* the equipment table of the load before its sort, with the columns
\* __fuel_issued__, __comment__ and __fleet__ added one after the other (each
\* resolution sees the columns added before it); fuel_col, comment_col and
\* fleet_col are the columns chosen, fleet_from the one __fleet__ is copied
\* from (without it the table is left as it is and the load raises)
PrepareEquipment(file) ==
    LET Prepared(e, fuel, comment, fleet, from) ==
            [cols        |-> e.cols,
             rows        |-> e.rows,
             fuel_col    |-> fuel,
             comment_col |-> comment,
             fleet_col   |-> fleet,
             fleet_from  |-> from]
        \* equipment[from] raises KeyError when the file has no such column
        AddFleet(e2, fuel, comment, fleet, from) ==
            Prepared(IF HasCol(e2, from)
                     THEN SetColumn(e2, FLEET_COL,
                             [i \in 1..Len(e2.rows) |->
                                 StrCell(AstypeStr(RawColumn(file, from), i))])
                     ELSE e2,
                     fuel, comment, fleet, from)
        FleetFrom(e2, fuel, comment, fleet) ==
            AddFleet(e2, fuel, comment, fleet, FleetSource(fleet))
        ResolveFleet(e2, fuel, comment) ==
            FleetFrom(e2, fuel, comment, Resolve("fleet", e2.cols))
        AddComment(e1, fuel, comment) ==
            ResolveFleet(SetColumn(e1, COMMENT_COL,
                            [i \in 1..Len(e1.rows) |->
                                StrCell(IF comment # None
                                        THEN AstypeStr(RawColumn(file, comment), i)
                                        ELSE DefaultComment)]),
                         fuel, comment)
        ResolveComment(e1, fuel) == AddComment(e1, fuel, Resolve("comment", e1.cols))
        AddFuelIssued(e0, fuel) ==
            ResolveComment(SetColumn(e0, FUEL_ISSUED_COL,
                              [i \in 1..Len(e0.rows) |->
                                  IF fuel # None
                                  THEN NormalizeCell(Column(e0, fuel)[i])
                                  ELSE NumCell(NaN)]),
                           fuel)
        ResolveFuel(e0) == AddFuelIssued(e0, Resolve("fuel", e0.cols))
    IN  ResolveFuel(read_csv(file))

\* only the dipping file is looked for
FilesMissing_DippingOnly(dfile, efile) == ~dfile.present

\* pd.read_csv of a path with no file raises FileNotFoundError
FilesMissing(dfile, efile) == ~dfile.present \/ ~efile.present

\* load_and_prepare(): the results the call may have; exc names the exception
\* that leaves it, "" for none
load_and_prepare(dfile, efile) ==
    IF FilesMissing(dfile, efile)
    THEN {[exc |-> "FileNotFoundError", dipping |-> NoTable, equipment |-> NoEquipment]}
    ELSE LET d0 == read_csv(dfile)
             d1 == [d0 EXCEPT !.cols = clean_cols(d0.cols)]
             d2 == NormalizeNumCols(d1)
             eq == PrepareEquipment([efile EXCEPT !.cols = clean_cols(efile.cols)])
         IN  IF ColIndex(clean_cols(efile.cols), eq.fleet_from) = 0
             THEN {[exc |-> "KeyError: 'Equipment Name'", dipping |-> NoTable,
                    equipment |-> NoEquipment]}
             ELSE {[exc |-> "", dipping |-> [d2 EXCEPT !.rows = sorted],
                    equipment |-> [eq EXCEPT !.rows = esorted]] :
                     sorted \in SortOutcomes(d2.rows), esorted \in SortOutcomes(eq.rows)}

(* -------------------------------- KPIs -------------------------------- *)

\* the first row instead of the last
latest_row_first(df) == df.rows[1]

\* dipping_df.iloc[-1]
latest_row(df) == df.rows[Len(df.rows)]

\* row.get(col, nan)
RowGet(df, row, c) ==
    IF HasCol(df, c) THEN row.cells[ColIndex(df.cols, c)] ELSE NumCell(NaN)

\* float(latest_row.get('Balance (Liters)', np.nan))
available_l(df) == RowGet(df, latest_row(df), BALANCE_COL).num

\* pd.to_numeric(str(value).replace(',', ''), errors='coerce')
CellToNumeric(c) == IF c.isnum THEN c.num ELSE ToNumericCoerce(RemoveCommas(c.str))

diesel_col_candidates(df) == Candidates("diesel", df.cols)

\* daily_latest: the exact column first, the first fuzzy match when that is NaN
daily_latest(df) ==
    LET first == RowGet(df, latest_row(df), DIESEL_EXACT).num
        cands == diesel_col_candidates(df)
    IN  IF IsNaN(first) /\ cands # <<>>
        THEN CellToNumeric(RowGet(df, latest_row(df), cands[1]))
        ELSE first

\* a text cell that float() rejects once its commas are removed
FloatRejects(c) == ~c.isnum /\ IsNaN(ToNumericCoerce(RemoveCommas(c.str)))

\* Series.astype(float) raises ValueError
AstypeFloatRaises(cells) == \E i \in 1..Len(cells) : FloatRejects(cells[i])

\* the column holds text: its max() is text (or raises), and np.isnan of it raises
IsObjectColumn(cells) == \E i \in 1..Len(cells) : ~cells[i].isnum

RECURSIVE SumValid(_)
SumValid(vals) ==
    IF vals = <<>> THEN Num(0)
    ELSE IF IsNaN(Head(vals)) THEN SumValid(Tail(vals))
    ELSE FAdd(Head(vals), SumValid(Tail(vals)))

CountValid(vals) == Cardinality({i \in 1..Len(vals) : ~IsNaN(vals[i])})

\* the mean with every missing value counted as a zero
Mean_MissingAsZero(vals) ==
    IF vals = <<>> THEN NaN ELSE FDiv(SumValid(vals), Num(Len(vals)))

\* the sum of the values, not divided by their number
Mean_SumOnly(vals) == IF CountValid(vals) = 0 THEN NaN ELSE SumValid(vals)

\* Series.mean(): NaN skipped, NaN when nothing is left
Mean(vals) ==
    IF CountValid(vals) = 0 THEN NaN ELSE FDiv(SumValid(vals), Num(CountValid(vals)))

\* the maximum that a missing value turns into NaN
SeriesMax_NaNWins(vals) ==
    IF vals = <<>> \/ \E i \in 1..Len(vals) : IsNaN(vals[i]) THEN NaN
    ELSE CHOOSE v \in {vals[i] : i \in 1..Len(vals)} :
           \A i \in 1..Len(vals) : ~FGt(vals[i], v)

\* Series.max() of a float column: NaN skipped, NaN when nothing is left
RECURSIVE SeriesMax(_)
SeriesMax(vals) ==
    IF vals = <<>> THEN NaN
    ELSE LET m == SeriesMax(Tail(vals))
         IN  IF IsNaN(Head(vals)) THEN m
             ELSE IF IsNaN(m) \/ FGt(Head(vals), m) THEN Head(vals) ELSE m

\* the usage column the average and the peak are taken from
UsageValues(df) ==
    LET cands == diesel_col_candidates(df)
    IN  IF cands # <<>>
        THEN LET col == Column(df, cands[1])
             IN  [i \in 1..Len(col) |-> CellToNumeric(col[i])]
        ELSE <<>>

avg_daily(df) == Mean(UsageValues(df))

peak_day(df) == SeriesMax(UsageValues(df))

\* the exception the KPI lines raise, "" for none: iloc[-1] of an empty table,
\* astype(float) of text that is no number, max()/np.isnan of a text column
KpiException(df) ==
    LET cands == diesel_col_candidates(df)
    IN  IF df.rows = <<>> THEN "IndexError: iloc[-1]"
        ELSE IF cands = <<>> THEN ""
        ELSE IF AstypeFloatRaises(Column(df, cands[1])) THEN "ValueError: astype(float)"
        ELSE IF IsObjectColumn(Column(df, cands[1])) THEN "TypeError: peak_day is text"
        ELSE ""

\* forecast_days without the clamp at 0
forecast_days_unclamped(avail, daily) ==
    IF FGt(daily, Num(0))
    THEN FDiv(FSub(avail, Num(low_balance_threshold)), daily)
    ELSE Num(0)

\* if daily_latest and daily_latest > 0: max((available_l - 5000) / daily_latest, 0) else 0
forecast_days(avail, daily) ==
    IF FGt(daily, Num(0))
    THEN PyMax(FDiv(FSub(avail, Num(low_balance_threshold)), daily), Num(0))
    ELSE Num(0)

\* (available_l / tank_capacity) * 100 if tank_capacity else 0, for a capacity
tank_level_pct_of(avail, capacity) ==
    IF capacity # 0 THEN FMul(FDiv(avail, Num(capacity)), Num(100)) ELSE Num(0)

\* the expression with tank_capacity = 60000 of line 688
tank_level_pct(avail) == tank_level_pct_of(avail, tank_capacity)

\* x if not np.isnan(x) else 0
NanToZero(x) == IF IsNaN(x) THEN Num(0) ELSE x

NoKpi == [available_l |-> NaN, daily_latest |-> NaN, avg_daily |-> NaN,
          peak_day |-> NaN, forecast_days |-> NaN, tank_level_pct |-> NaN,
          diesel_col_candidates |-> <<>>]

\* the local KPI variables of page_fuel
ComputeKpis(df) ==
    LET avail == available_l(df)
        daily == daily_latest(df)
    IN  [available_l    |-> avail,
         daily_latest   |-> daily,
         avg_daily      |-> avg_daily(df),
         peak_day       |-> peak_day(df),
         forecast_days  |-> forecast_days(avail, daily),
         tank_level_pct |-> tank_level_pct(avail),
         diesel_col_candidates |-> diesel_col_candidates(df)]

\* kpi_data, the dict handed to generate_pdf_report
MakeKpiData(k) ==
    [available_fuel    |-> NanToZero(k.available_l),
     daily_consumption |-> NanToZero(k.daily_latest),
     avg_daily         |-> NanToZero(k.avg_daily),
     peak_day          |-> NanToZero(k.peak_day),
     forecast_days     |-> k.forecast_days,
     tank_level_pct    |-> k.tank_level_pct]

(* --------------------------- period buckets --------------------------- *)

\* Series.unique(): the values in the order of their first appearance
RECURSIVE Unique(_)
Unique(vals) ==
    IF vals = <<>> THEN <<>>
    ELSE LET u == Unique(SubSeq(vals, 1, Len(vals) - 1))
             v == vals[Len(vals)]
         IN  IF \E i \in 1..Len(u) : u[i] = v THEN u ELSE Append(u, v)

\* list(dipping_df['MonthName'].unique())
unique_months(df) == Unique([i \in 1..Len(df.rows) |-> month_name(df.rows[i].date)])

\* a row of month_df: its index label in dipping_df, its date and its
\* WeekOfMonth (0 while the column has not been added)
BucketRows(df, with_week) ==
    [i \in 1..Len(df.rows) |->
        [index |-> i, date |-> df.rows[i].date,
         WeekOfMonth |-> IF with_week THEN WeekOfMonth(df.rows[i].date) ELSE 0]]

\* dipping_df[dipping_df['MonthName'] == month_selected].copy(), with the
\* WeekOfMonth column when there is a usage column
MonthDf(df, month, with_week) ==
    SelectSeq(BucketRows(df, with_week), LAMBDA r : month_name(r.date) = month)

\* sorted(month_df['WeekOfMonth'].unique()), as a set
week_options(mdf) == {mdf[i].WeekOfMonth : i \in 1..Len(mdf)}

\* month_df[month_df['WeekOfMonth'] == week_selected].copy()
WeekRows(mdf, week) == SelectSeq(mdf, LAMBDA r : r.WeekOfMonth = week)

(* ------------------------ the fuel by activity pie -------------------- *)

OTHER_WORKS == <<"O","t","h","e","r"," ","W","o","r","k","s">>

\* the sum of the values at the positions in S, NaN skipped
RECURSIVE GroupSum(_, _)
GroupSum(vals, S) ==
    IF S = {} THEN Num(0)
    ELSE LET i == CHOOSE x \in S : TRUE
             r == GroupSum(vals, S \ {i})
         IN  IF IsNaN(vals[i]) THEN r ELSE FAdd(vals[i], r)

\* equipment_df.groupby('__comment__')['__fuel_issued__'].sum(): the total of
\* every comment, 0 for one whose records have no number
activity(eq) ==
    LET comments == [i \in 1..Len(eq.rows) |-> Column(eq, COMMENT_COL)[i].str]
        issued   == [i \in 1..Len(eq.rows) |-> Column(eq, FUEL_ISSUED_COL)[i].num]
    IN  [c \in {comments[i] : i \in 1..Len(eq.rows)} |->
            GroupSum(issued, {i \in 1..Len(eq.rows) : comments[i] = c})]

\* .sort_values(ascending=False) and .head(5): the key sets the head may
\* hold, comments of equal totals in any order
top5_act(totals) ==
    {S \in SUBSET DOMAIN totals :
        /\ Cardinality(S) = (IF Cardinality(DOMAIN totals) > 5 THEN 5
                             ELSE Cardinality(DOMAIN totals))
        /\ \A a \in S, b \in (DOMAIN totals) \ S : ~FGt(totals[b], totals[a])}

\* the remainder never computed
others_sum_Zero(totals, top) == Num(0)

\* activity.iloc[5:].sum() if activity.shape[0] > 5 else 0
others_sum(totals, top) ==
    IF Cardinality(DOMAIN totals) > 5
    THEN GroupSum(totals, (DOMAIN totals) \ top)
    ELSE Num(0)

\* the pies the chart code may draw: a slice for each comment of the head,
\* and 'Other Works' when others_sum > 0; no slice when there is no record
fuel_activity_chart(eq) ==
    LET totals == activity(eq)
    IN  IF DOMAIN totals = {} THEN {{}}
        ELSE { {[label |-> c, value |-> totals[c], others |-> FALSE] : c \in top} \cup
               (IF FGt(others_sum(totals, top), Num(0))
                THEN {[label |-> OTHER_WORKS, value |-> others_sum(totals, top),
                       others |-> TRUE]}
                ELSE {}) : top \in top5_act(totals) }

(* ------------------------------- inputs ------------------------------- *)

cEmpty == <<>>
cAbc == <<"a","b","c">>
cZero == <<"0">>
cNeg == <<"-","5">>
c2000 == <<"2","0","0","0">>
c6000 == <<"6",",","0","0","0">>

\* field texts of the dipping file: of a usage column, of the balance column
UsagePool == {cEmpty, cAbc, cZero, cNeg, c2000, c6000}
BalancePool == {cEmpty, c2000, c6000}

PoolFor(col) == IF Strip(col) = BALANCE_COL THEN BalancePool ELSE UsagePool

\* the dates of the records, as day numbers
Days == {1, 2}

\* header lists of the dipping file, the Date and the two name columns left out
\* (they are taken to be there)
DipHeaderLists ==
    { <<DIESEL_EXACT, BALANCE_COL>>,
      <<hDieselUsed, BALANCE_COL>>,
      <<BALANCE_COL>>,
      <<hDieselIssuedPadded>> }

\* header lists of the equipment file, the Date left out
EqHeaderLists ==
    { <<EQUIPMENT_NAME, hFleetNo, hFuelIssued, hComment>>,
      <<EQUIPMENT_NAME, hOperator>>,
      <<hFuelType, hRemarks>> }

StandardEquipment ==
    [present |-> TRUE, cols |-> <<EQUIPMENT_NAME, hFleetNo, hFuelIssued, hComment>>,
     rows |-> <<>>]

CellsFor(cols) ==
    { f \in [1..Len(cols) -> UsagePool \cup BalancePool] :
        \A j \in 1..Len(cols) : f[j] \in PoolFor(cols[j]) }

\* the rows a file with these headers can hold
RowPool(cols) == [date : Days, cells : CellsFor(cols)]

PresentFile(cols, rows) == [present |-> TRUE, cols |-> cols, rows |-> rows]

\* the records after the second are drawn from fewer field texts: a usage
\* that is empty or 2000, a balance that is empty or 6,000
LaterPoolFor(col) == IF Strip(col) = BALANCE_COL THEN {cEmpty, c6000} ELSE {cEmpty, c2000}

LaterRowPool(cols) ==
    {r \in RowPool(cols) : \A j \in 1..Len(cols) : r.cells[j] \in LaterPoolFor(cols[j])}

\* the record lists of at most n records a file with these headers can hold
RowLists(cols, n) ==
    {rows \in [1..n -> RowPool(cols)] : \A i \in 3..n : rows[i] \in LaterRowPool(cols)}

\* the file pairs a session starts from: every dipping file beside the
\* standard equipment file, and every equipment file beside the dipping
\* files of at most one row
InputPair(d, e) ==
    \/ /\ e = StandardEquipment
       /\ \/ d = Absent
          \/ \E cols \in DipHeaderLists : \E n \in 0..MaxRows :
               \E rows \in RowLists(cols, n) : d = PresentFile(cols, rows)
    \/ /\ \/ e = Absent
          \/ \E cols \in EqHeaderLists : e = PresentFile(cols, <<>>)
       /\ \/ d = Absent
          \/ \E cols \in DipHeaderLists : \E n \in 0..1 :
               \E rows \in [1..n -> RowPool(cols)] : d = PresentFile(cols, rows)

(* ------------------------ the cache of the load ----------------------- *)

\* the entry st.cache_data holds for load_and_prepare: none yet
NoCache == [hit |-> FALSE, dipping |-> NoTable, equipment |-> NoEquipment]

\* the entry written when the body has returned r
CacheEntry(r) == [hit |-> TRUE, dipping |-> r.dipping, equipment |-> r.equipment]

\* the decorator left out: every call runs the body
CacheHit_Never(c) == FALSE

\* @st.cache_data: a call with the arguments of a stored entry returns it
CacheHit(c) == c.hit

\* the tables handed to a pass are the cached objects themselves, as
\* @st.cache_resource hands them out
PassSharesCachedTables_Resource == TRUE

\* @st.cache_data keeps the pickled return value and hands out the value the
\* body returned (on a miss) or a fresh copy (on a hit): a pass never holds
\* the cached objects
PassSharesCachedTables == FALSE

\* the cache entry once the pass has changed its dipping table to df
CacheAfterPassWrites(c, df) ==
    IF c.hit /\ PassSharesCachedTables THEN [c EXCEPT !.dipping = df] ELSE c

\* the lines of load_and_prepare that resolve a semantic field, and the lines
\* of page_fuel that do
LoadResolutions == {[intent |-> "fuel", line |-> 634], [intent |-> "comment", line |-> 641],
                    [intent |-> "fleet", line |-> 648]}

\* the resolutions of the KPI lines on table df: line 676 when the exact
\* column gives NaN, line 680 always
KpiResolutions(df) ==
    {[intent |-> "diesel", line |-> 680]} \cup
    (IF IsNaN(RowGet(df, latest_row(df), DIESEL_EXACT).num)
     THEN {[intent |-> "diesel", line |-> 676]} ELSE {})

(* ------------------------ the sidebar and the router ------------------ *)

\* the options of the "Go to module" radio
Sections == {"Main Dashboard", "Fleet Management", "Fuel Farm", "Stores Management",
             "Block Production", "HR Management", "Quantity Surveying"}

\* the functions the module defines with def page_...
DefinedPages == {"page_dashboard", "page_fuel", "page_stores", "page_production",
                 "page_hr", "page_qs"}

\* the if/elif chain of the router: the name it calls for a section
RouteTarget(s) ==
    CASE s = "Main Dashboard"       -> "page_dashboard"
      [] s = "Fleet Management"     -> "page_fleet"
      [] s = "Fuel Farm"            -> "page_fuel"
      [] s = "Stores Management"  -> "page_stores"
      [] s = "Block Production"   -> "page_production"
      [] s = "HR Management"      -> "page_hr"
      [] s = "Quantity Surveying" -> "page_qs"

\* most script passes of a session
MaxPasses == 3

(* -------------------------------- state ------------------------------- *)

VARIABLES
    dippingFile,    \* dipping_dataset.csv
    equipmentFile,  \* equipment_dataset.csv
    pc,             \* position of the view pass in page_fuel
    dipping_df,     \* the pass's dipping table
    equipment_df,   \* the pass's equipment table
    kpi,            \* the local KPI variables
    kpi_data,       \* the dict given to the report
    cards,          \* the values the four KPI cards show
    tank,           \* the gauge value and the forecast text
    rendered,       \* the elements written to the page so far
    error,          \* the failure reported with st.error
    raised,         \* the exception that ended the pass
    month_selected, \* the month chosen in the "Select Month" box
    month_df,       \* the records of that month
    week_selected,  \* the week chosen in the "Select Week of Month" box
    week_df,        \* the records of that week
    fnArg,          \* argument of the function under test
    fnOut,          \* its result
    section,        \* the module chosen in the sidebar
    page,           \* the page function the router called
    cache,          \* the st.cache_data entry of load_and_prepare
    parses,         \* the runs of the body of load_and_prepare so far
    passes,         \* the number of the script pass
    resolutions,    \* the field resolutions done so far: field, line, pass
    activity_chart  \* the slices of the fuel-by-activity pie

vars == <<dippingFile, equipmentFile, pc, dipping_df, equipment_df, kpi, kpi_data,
          cards, tank, rendered, error, raised, month_selected, month_df,
          week_selected, week_df, fnArg, fnOut, section, page, cache, parses,
          passes, resolutions, activity_chart>>

\* the drill-down selection of the two consumption charts
bucket == <<month_selected, month_df, week_selected, week_df>>

\* nothing selected yet
NoBucket == <<"", <<>>, 0, <<>>>>

\* what outlives a script pass and what tells the passes apart
session == <<section, page, cache, parses, passes, resolutions>>

\* a first pass that has entered page_fuel, nothing cached
FuelPageEntered ==
    /\ section = "Fuel Farm"
    /\ page = "page_fuel"
    /\ cache = NoCache
    /\ parses = 0
    /\ passes = 1
    /\ resolutions = {}
    /\ activity_chart = {}

NoCards == [available_l |-> NaN, daily_latest |-> NaN, avg_daily |-> NaN, peak_day |-> NaN]
NoTank == [value |-> NaN, forecast_text |-> ""]

Init ==
    /\ InputPair(dippingFile, equipmentFile)
    /\ pc = "start"
    /\ dipping_df = NoTable
    /\ equipment_df = NoEquipment
    /\ kpi = NoKpi
    /\ kpi_data = MakeKpiData(NoKpi)
    /\ cards = NoCards
    /\ tank = NoTank
    /\ rendered = {}
    /\ error = ""
    /\ raised = ""
    /\ month_selected = ""
    /\ month_df = <<>>
    /\ week_selected = 0
    /\ week_df = <<>>
    /\ FuelPageEntered
    /\ fnArg = <<>>
    /\ fnOut = <<>>

(* ------------------------------ the pass ------------------------------ *)

\* page_fuel up to the load: the style block and the page header
RenderHeader ==
    /\ pc = "start"
    /\ rendered' = rendered \cup {"styles", "header"}
    /\ pc' = "header"
    /\ UNCHANGED <<dippingFile, equipmentFile, dipping_df, equipment_df, kpi, kpi_data,
                   cards, tank, error, raised, fnArg, fnOut, bucket, session, activity_chart>>

\* the empty check left out
IsEmpty_Never(df) == FALSE

\* dipping_df.empty
IsEmpty(df) == df.rows = <<>>

\* the try/except around the cached load_and_prepare() and the empty check
Load ==
    /\ pc = "header"
    /\ LET hit == CacheHit(cache)
       IN  \E r \in (IF hit THEN {[exc |-> "", dipping |-> cache.dipping,
                                   equipment |-> cache.equipment]}
                            ELSE load_and_prepare(dippingFile, equipmentFile)) :
             /\ parses' = IF hit THEN parses ELSE parses + 1
             /\ cache' = IF ~hit /\ r.exc = "" THEN CacheEntry(r) ELSE cache
             /\ resolutions' =
                  IF hit \/ FilesMissing(dippingFile, equipmentFile) THEN resolutions
                  ELSE resolutions \cup
                       {[intent |-> x.intent, line |-> x.line, pass |-> passes] :
                          x \in LoadResolutions}
             /\ IF r.exc = "FileNotFoundError"
                THEN /\ error' = "MissingInputFile"
                     /\ rendered' = rendered \cup {"error_missing"}
                     /\ pc' = "stopped"
                     /\ UNCHANGED <<dipping_df, equipment_df, raised>>
                ELSE IF r.exc # ""
                THEN /\ raised' = r.exc
                     /\ pc' = "raised"
                     /\ UNCHANGED <<dipping_df, equipment_df, error, rendered>>
                ELSE IF IsEmpty(r.dipping)
                THEN /\ dipping_df' = r.dipping
                     /\ equipment_df' = r.equipment
                     /\ error' = "EmptyDataset"
                     /\ rendered' = rendered \cup {"error_empty"}
                     /\ pc' = "stopped"
                     /\ UNCHANGED raised
                ELSE /\ dipping_df' = r.dipping
                     /\ equipment_df' = r.equipment
                     /\ pc' = "loaded"
                     /\ UNCHANGED <<error, rendered, raised>>
    /\ UNCHANGED <<dippingFile, equipmentFile, kpi, kpi_data, cards, tank, fnArg, fnOut,
                   bucket, section, page, passes, activity_chart>>

\* the KPI calculations and kpi_data
ComputeKpi ==
    /\ pc = "loaded"
    /\ resolutions' = resolutions \cup
                      {[intent |-> x.intent, line |-> x.line, pass |-> passes] :
                         x \in KpiResolutions(dipping_df)}
    /\ LET exc == KpiException(dipping_df)
       IN  IF exc # ""
           THEN /\ raised' = exc
                /\ pc' = "raised"
                /\ UNCHANGED <<kpi, kpi_data>>
           ELSE /\ kpi' = ComputeKpis(dipping_df)
                /\ kpi_data' = MakeKpiData(kpi')
                /\ pc' = "kpi"
                /\ UNCHANGED raised
    /\ UNCHANGED <<dippingFile, equipmentFile, dipping_df, equipment_df, cards, tank,
                   rendered, error, fnArg, fnOut, bucket, section, page, cache, parses,
                   passes, activity_chart>>

\* generate_pdf_report and the download button; reportlab may be missing
Report ==
    /\ pc = "kpi"
    /\ \E installed \in BOOLEAN :
         rendered' = rendered \cup {IF installed THEN "download_report" ELSE "reportlab_info"}
    /\ pc' = "report"
    /\ UNCHANGED <<dippingFile, equipmentFile, dipping_df, equipment_df, kpi, kpi_data,
                   cards, tank, error, raised, fnArg, fnOut, bucket, session, activity_chart>>

\* the four KPI cards
RenderCards ==
    /\ pc = "report"
    /\ cards' = [available_l |-> kpi.available_l, daily_latest |-> kpi.daily_latest,
                 avg_daily |-> kpi.avg_daily, peak_day |-> kpi.peak_day]
    /\ rendered' = rendered \cup {"kpi_cards"}
    /\ pc' = "cards"
    /\ UNCHANGED <<dippingFile, equipmentFile, dipping_df, equipment_df, kpi, kpi_data,
                   tank, error, raised, fnArg, fnOut, bucket, session, activity_chart>>

\* f"{forecast_days:.0f} Days Until 5,000L" if forecast_days > 0 else "Refill needed soon"
forecast_text(fd) == IF FGt(fd, Num(0)) THEN "Days Until 5,000L" ELSE "Refill needed soon"

ChartsBeforeRecords == {"monthly_chart", "daily_chart", "recent_deliveries"}
ChartsBeforeBalance == {"recent_records", "top_consumers", "activity_chart", "tank_gauge"}
ChartsAfterBalance == {"balance_chart", "usage_by_date", "dip_accuracy", "attendant_chart",
                       "security_chart"}

\* the month and week selections and the records of the two consumption charts
SelectBuckets ==
    \E m \in {unique_months(dipping_df)[i] : i \in 1..Len(unique_months(dipping_df))} :
        /\ month_selected' = m
        /\ IF kpi.diesel_col_candidates # <<>>
           THEN LET mdf == MonthDf(dipping_df, m, TRUE)
                IN  /\ month_df' = mdf
                    /\ \E w \in week_options(mdf) :
                         /\ week_selected' = w
                         /\ week_df' \in SortOutcomes(WeekRows(mdf, w))
           ELSE /\ month_df' = MonthDf(dipping_df, m, FALSE)
                /\ week_selected' = 0
                /\ week_df' = <<>>

\* the rest of the page: the charts and tables below the cards
RenderCharts ==
    /\ pc = "cards"
    /\ SelectBuckets
    /\ IF kpi.diesel_col_candidates = <<>>
       THEN \* diesel_col_candidates[0] of the recent records
            /\ raised' = "IndexError: diesel_col_candidates[0]"
            /\ rendered' = rendered \cup ChartsBeforeRecords
            /\ pc' = "raised"
            /\ UNCHANGED <<tank, activity_chart>>
       ELSE IF ~HasCol(dipping_df, BALANCE_COL)
       THEN \* dipping_df['Balance (Liters)'] of the balance trend
            /\ raised' = "KeyError: 'Balance (Liters)'"
            /\ rendered' = rendered \cup ChartsBeforeRecords \cup ChartsBeforeBalance
            /\ activity_chart' \in fuel_activity_chart(equipment_df)
            /\ tank' = [value |-> tank_level_pct(kpi.available_l),
                        forecast_text |-> forecast_text(kpi.forecast_days)]
            /\ pc' = "raised"
       ELSE /\ rendered' = rendered \cup ChartsBeforeRecords \cup ChartsBeforeBalance
                           \cup ChartsAfterBalance
            /\ activity_chart' \in fuel_activity_chart(equipment_df)
            /\ tank' = [value |-> tank_level_pct(kpi.available_l),
                        forecast_text |-> forecast_text(kpi.forecast_days)]
            /\ pc' = "done"
            /\ UNCHANGED raised
    /\ dipping_df' = AddPeriodColumns(dipping_df)
    /\ cache' = CacheAfterPassWrites(cache, dipping_df')
    /\ UNCHANGED <<dippingFile, equipmentFile, equipment_df, kpi, kpi_data,
                   cards, error, fnArg, fnOut, section, page, parses, passes,
                   resolutions>>

Next ==
    \/ RenderHeader
    \/ Load
    \/ ComputeKpi
    \/ Report
    \/ RenderCards
    \/ RenderCharts

Spec == Init /\ [][Next]_vars

(* ------------------------------ the session --------------------------- *)

\* the router: the page function of the chosen section is called; a name
\* that no def binds raises NameError
Route ==
    /\ pc = "router"
    /\ LET f == RouteTarget(section)
       IN  IF f \notin DefinedPages
           THEN /\ raised' = "NameError: name 'page_fleet' is not defined"
                /\ pc' = "raised"
                /\ UNCHANGED <<page, rendered>>
           ELSE /\ page' = f
                /\ pc' = IF f = "page_fuel" THEN "start" ELSE "page_done"
                /\ rendered' = IF f = "page_fuel" THEN rendered ELSE rendered \cup {f}
                /\ UNCHANGED raised
    /\ UNCHANGED <<dippingFile, equipmentFile, dipping_df, equipment_df, kpi, kpi_data,
                   cards, tank, error, fnArg, fnOut, bucket, section, cache, parses,
                   passes, resolutions, activity_chart>>

\* a widget is used: the running pass is dropped and the script runs again
\* from the top with the section then chosen; only the cache outlives it
Rerun ==
    /\ passes < MaxPasses
    /\ passes' = passes + 1
    /\ section' \in Sections
    /\ pc' = "router"
    /\ page' = ""
    /\ dipping_df' = NoTable
    /\ equipment_df' = NoEquipment
    /\ kpi' = NoKpi
    /\ kpi_data' = MakeKpiData(NoKpi)
    /\ cards' = NoCards
    /\ tank' = NoTank
    /\ rendered' = {}
    /\ error' = ""
    /\ raised' = ""
    /\ month_selected' = ""
    /\ month_df' = <<>>
    /\ week_selected' = 0
    /\ week_df' = <<>>
    /\ activity_chart' = {}
    /\ UNCHANGED <<dippingFile, equipmentFile, fnArg, fnOut, cache, parses, resolutions>>

\* the dipping files of a session: no file, or at most two records of day 1
\* or 2 with a usage that is empty or 2000 and the balance 6,000
SessionRowPool == [date : Days, cells : {<<cEmpty, c6000>>, <<c2000, c6000>>}]

SessionDippingFiles ==
    {Absent} \cup
    UNION { { PresentFile(cols, rows) : rows \in [1..n -> SessionRowPool] } :
            cols \in {<<DIESEL_EXACT, BALANCE_COL>>, <<hDieselUsed, BALANCE_COL>>},
            n \in 0..2 }

\* a session starts on the Main Dashboard (index=0) with nothing cached
InitSession ==
    /\ dippingFile \in SessionDippingFiles
    /\ equipmentFile \in {StandardEquipment, Absent}
    /\ pc = "router"
    /\ section = "Main Dashboard"
    /\ page = ""
    /\ cache = NoCache
    /\ parses = 0
    /\ passes = 1
    /\ resolutions = {}
    /\ activity_chart = {}
    /\ dipping_df = NoTable
    /\ equipment_df = NoEquipment
    /\ kpi = NoKpi
    /\ kpi_data = MakeKpiData(NoKpi)
    /\ cards = NoCards
    /\ tank = NoTank
    /\ rendered = {}
    /\ error = ""
    /\ raised = ""
    /\ month_selected = ""
    /\ month_df = <<>>
    /\ week_selected = 0
    /\ week_df = <<>>
    /\ fnArg = <<>>
    /\ fnOut = <<>>

NextSession ==
    \/ Route
    \/ Rerun
    \/ Next

SpecSession == InitSession /\ [][NextSession]_vars

(* ------------------- the column resolver on its own ------------------- *)

\* most headers of a header list given to the resolver
MaxHeaders == 2

HeaderPool == {DIESEL_EXACT, hDieselUsed, hDieselIssuedPadded, hDieselStock, BALANCE_COL,
               EQUIPMENT_NAME, hFleetNo, hFuelIssued, hFuelType, hComment, hRemarks,
               hOperator}

\* header lists without repeated headers
HeaderLists ==
    UNION { { h \in [1..n -> HeaderPool] : \A i, j \in 1..n : i # j => h[i] # h[j] } :
            n \in 0..MaxHeaders }

InitResolve ==
    /\ fnArg \in [intent : Intents, cols : HeaderLists]
    /\ fnOut = None
    /\ pc = "resolve"
    /\ dippingFile = Absent
    /\ equipmentFile = Absent
    /\ dipping_df = NoTable
    /\ equipment_df = NoEquipment
    /\ kpi = NoKpi
    /\ kpi_data = MakeKpiData(NoKpi)
    /\ cards = NoCards
    /\ tank = NoTank
    /\ rendered = {}
    /\ error = ""
    /\ raised = ""
    /\ month_selected = ""
    /\ month_df = <<>>
    /\ week_selected = 0
    /\ week_df = <<>>
    /\ FuelPageEntered

\* one resolution as the load does it: clean_cols, then the first candidate
ResolveColumn ==
    /\ pc = "resolve"
    /\ fnOut' = Resolve(fnArg.intent, clean_cols(fnArg.cols))
    /\ pc' = "resolved"
    /\ UNCHANGED <<dippingFile, equipmentFile, dipping_df, equipment_df, kpi, kpi_data,
                   cards, tank, rendered, error, raised, fnArg, bucket, session, activity_chart>>

NextResolve == ResolveColumn

SpecResolve == InitResolve /\ [][NextResolve]_vars

(* ------------------ the numeric normalizer on its own ------------------ *)

\* longest field text given to the normalizer
MaxLen == 3

NormAlphabet == {"0", "1", ",", ".", " ", "-", "a"}

c1234_50 == <<"1",",","2","3","4",".","5","0">>

FieldTexts ==
    UNION { [1..n -> NormAlphabet] : n \in 0..MaxLen } \cup {c1234_50, cAbc}

InitNormalize ==
    /\ fnArg \in FieldTexts
    /\ fnOut = NaN
    /\ pc = "normalize"
    /\ dippingFile = Absent
    /\ equipmentFile = Absent
    /\ dipping_df = NoTable
    /\ equipment_df = NoEquipment
    /\ kpi = NoKpi
    /\ kpi_data = MakeKpiData(NoKpi)
    /\ cards = NoCards
    /\ tank = NoTank
    /\ rendered = {}
    /\ error = ""
    /\ raised = ""
    /\ month_selected = ""
    /\ month_df = <<>>
    /\ week_selected = 0
    /\ week_df = <<>>
    /\ FuelPageEntered

\* a one-field column read from the file and coerced as the load coerces it
NormalizeField ==
    /\ pc = "normalize"
    /\ fnOut' = NormalizeCell(ReadCsvCell(<<fnArg>>, fnArg)).num
    /\ pc' = "normalized"
    /\ UNCHANGED <<dippingFile, equipmentFile, dipping_df, equipment_df, kpi, kpi_data,
                   cards, tank, rendered, error, raised, fnArg, bucket, session, activity_chart>>

NextNormalize == NormalizeField

SpecNormalize == InitNormalize /\ [][NextNormalize]_vars

(* ------------------ the tank level expression on its own --------------- *)

\* the balances given to the expression: NaN and 0, 2000, ... MaxLevels * 2000
MaxLevels == 30

Levels == {NaN} \cup {Num(k * 2000) : k \in 0..MaxLevels}

\* the capacities: the one of line 688 and the zero the expression guards
Capacities == {tank_capacity, 0}

InitTank ==
    /\ fnArg \in [available_l : Levels, tank_capacity : Capacities]
    /\ fnOut = NaN
    /\ pc = "tank"
    /\ dippingFile = Absent
    /\ equipmentFile = Absent
    /\ dipping_df = NoTable
    /\ equipment_df = NoEquipment
    /\ kpi = NoKpi
    /\ kpi_data = MakeKpiData(NoKpi)
    /\ cards = NoCards
    /\ tank = NoTank
    /\ rendered = {}
    /\ error = ""
    /\ raised = ""
    /\ month_selected = ""
    /\ month_df = <<>>
    /\ week_selected = 0
    /\ week_df = <<>>
    /\ FuelPageEntered

\* the expression of lines 694 and 936 evaluated once
TankLevel ==
    /\ pc = "tank"
    /\ fnOut' = tank_level_pct_of(fnArg.available_l, fnArg.tank_capacity)
    /\ pc' = "tank_done"
    /\ UNCHANGED <<dippingFile, equipmentFile, dipping_df, equipment_df, kpi, kpi_data,
                   cards, tank, rendered, error, raised, fnArg, bucket, session, activity_chart>>

NextTank == TankLevel

SpecTank == InitTank /\ [][NextTank]_vars

(* ------------------- the pass on the reference scenario ----------------- *)

c1500 == <<"1","5","0","0">>
c6000plain == <<"6","0","0","0">>
c8000 == <<"8","0","0","0">>
c8000comma == <<"8",",","0","0","0">>
c10000 == <<"1","0","0","0","0">>
c10000comma == <<"1","0",",","0","0","0">>

\* the three records of the scenario, by day: usage and balance as the file
\* writes them, the balances with or without thousands separators
ScenarioFields ==
    { << <<c1500, c10000>>, <<c2000, c8000>>, <<c2000, c6000plain>> >>,
      << <<c1500, c10000comma>>, <<c2000, c8000comma>>, <<c2000, c6000>> >> }

\* the day number of the first record: inside a week, across a week, a month
\* and a year boundary
ScenarioStarts == {1, 6, 30, 364}

\* header lists of the scenario file, each with the place of the usage and
\* of the balance in a row
ScenarioLayouts ==
    { [cols |-> <<DIESEL_EXACT, BALANCE_COL>>, usage |-> 1, balance |-> 2],
      [cols |-> <<BALANCE_COL, DIESEL_EXACT>>, usage |-> 2, balance |-> 1],
      [cols |-> <<hDieselUsed, BALANCE_COL>>, usage |-> 1, balance |-> 2] }

\* record k of the scenario as a row of the file
ScenarioRow(layout, fields, start, k) ==
    [date  |-> start + k - 1,
     cells |-> [j \in 1..2 |-> IF j = layout.usage THEN fields[k][1] ELSE fields[k][2]]]

InitScenario ==
    /\ \E layout \in ScenarioLayouts, fields \in ScenarioFields,
          start \in ScenarioStarts, order \in Permutations(1..3) :
            dippingFile = PresentFile(layout.cols,
                             [i \in 1..3 |-> ScenarioRow(layout, fields, start, order[i])])
    /\ equipmentFile = StandardEquipment
    /\ pc = "start"
    /\ dipping_df = NoTable
    /\ equipment_df = NoEquipment
    /\ kpi = NoKpi
    /\ kpi_data = MakeKpiData(NoKpi)
    /\ cards = NoCards
    /\ tank = NoTank
    /\ rendered = {}
    /\ error = ""
    /\ raised = ""
    /\ month_selected = ""
    /\ month_df = <<>>
    /\ week_selected = 0
    /\ week_df = <<>>
    /\ FuelPageEntered
    /\ fnArg = <<>>
    /\ fnOut = <<>>

SpecScenario == InitScenario /\ [][Next]_vars

(* -------------------- the week-of-month index on its own ---------------- *)

\* the last day number given to the index: the dates run from the first of
\* January of EpochYear over every day of thirteen months
MaxDayNumber == 400

InitWeek ==
    /\ fnArg \in 1..MaxDayNumber
    /\ fnOut = 0
    /\ pc = "week"
    /\ dippingFile = Absent
    /\ equipmentFile = Absent
    /\ dipping_df = NoTable
    /\ equipment_df = NoEquipment
    /\ kpi = NoKpi
    /\ kpi_data = MakeKpiData(NoKpi)
    /\ cards = NoCards
    /\ tank = NoTank
    /\ rendered = {}
    /\ error = ""
    /\ raised = ""
    /\ month_selected = ""
    /\ month_df = <<>>
    /\ week_selected = 0
    /\ week_df = <<>>
    /\ FuelPageEntered

\* month_df['Date'].apply(lambda d: (d.day - 1) // 7 + 1) on one date
ApplyWeekOfMonth ==
    /\ pc = "week"
    /\ fnOut' = WeekOfMonth(fnArg)
    /\ pc' = "week_done"
    /\ UNCHANGED <<dippingFile, equipmentFile, dipping_df, equipment_df, kpi, kpi_data,
                   cards, tank, rendered, error, raised, fnArg, bucket, session, activity_chart>>

NextWeek == ApplyWeekOfMonth

SpecWeek == InitWeek /\ [][NextWeek]_vars

(* ------------------- the pass on records of many dates ------------------ *)

\* most records of a file whose dates vary
MaxRecords == 3

\* the dates of those records: the 1st, 7th and 8th of January and the 1st
\* of February of EpochYear, the 1st and the 8th of January of the next year
DatePool == {1, 7, 8, 32, 366, 373}

\* a record with usage 2000 and balance 6,000 on day n
DatedRow(n) == [date |-> n, cells |-> <<c2000, c6000>>]

InitDates ==
    /\ \E n \in 1..MaxRecords : \E days \in [1..n -> DatePool] :
          dippingFile = PresentFile(<<DIESEL_EXACT, BALANCE_COL>>,
                                    [i \in 1..n |-> DatedRow(days[i])])
    /\ equipmentFile = StandardEquipment
    /\ pc = "start"
    /\ dipping_df = NoTable
    /\ equipment_df = NoEquipment
    /\ kpi = NoKpi
    /\ kpi_data = MakeKpiData(NoKpi)
    /\ cards = NoCards
    /\ tank = NoTank
    /\ rendered = {}
    /\ error = ""
    /\ raised = ""
    /\ month_selected = ""
    /\ month_df = <<>>
    /\ week_selected = 0
    /\ week_df = <<>>
    /\ FuelPageEntered
    /\ fnArg = <<>>
    /\ fnOut = <<>>

SpecDates == InitDates /\ [][Next]_vars

(* ------------- the pass on files with two usage columns --------------- *)

\* header lists that hold the exact usage header beside another header that
\* reads as diesel issued/used, before it or after it
TwoUsageHeaderLists ==
    { <<hDieselUsed, DIESEL_EXACT, BALANCE_COL>>,
      <<DIESEL_EXACT, hDieselUsed, BALANCE_COL>> }

\* the rows of such a file: each usage empty, 0 or 2000, the balance 6,000
TwoUsageRowPool(cols) ==
    {r \in [date : Days, cells : [1..3 -> {cEmpty, cZero, c2000, c6000}]] :
        \A j \in 1..3 :
            IF cols[j] = BALANCE_COL THEN r.cells[j] = c6000
            ELSE r.cells[j] \in {cEmpty, cZero, c2000}}

InitUsageColumns ==
    /\ \E cols \in TwoUsageHeaderLists : \E n \in 1..MaxRows :
          \E rows \in [1..n -> TwoUsageRowPool(cols)] :
              dippingFile = PresentFile(cols, rows)
    /\ equipmentFile = StandardEquipment
    /\ pc = "start"
    /\ dipping_df = NoTable
    /\ equipment_df = NoEquipment
    /\ kpi = NoKpi
    /\ kpi_data = MakeKpiData(NoKpi)
    /\ cards = NoCards
    /\ tank = NoTank
    /\ rendered = {}
    /\ error = ""
    /\ raised = ""
    /\ month_selected = ""
    /\ month_df = <<>>
    /\ week_selected = 0
    /\ week_df = <<>>
    /\ FuelPageEntered
    /\ fnArg = <<>>
    /\ fnOut = <<>>

SpecUsageColumns == InitUsageColumns /\ [][Next]_vars

(* ---------------- the pass on equipment files with records ------------ *)

\* most records of an equipment file
MaxEqRows == 2

hFleetIdPadded == <<" ","F","L","E","E","T"," ","I","D"," ">>
cExcavator == <<"E","X","-","1">>
c12 == <<"1","2">>
cF1 == <<"F","1">>
cF2 == <<"F","2">>
cHaul == <<"h","a","u","l">>
cIdle == <<"i","d","l","e">>

\* header lists of the equipment file: the usual one, one with neither a
\* fleet nor a comment header, one with two of each, one with no fleet header
\* and no equipment name
EqRecordHeaderLists ==
    { <<EQUIPMENT_NAME, hFleetNo, hFuelIssued, hComment>>,
      <<EQUIPMENT_NAME, hFuelIssued>>,
      <<hFleetNo, hFleetIdPadded, hRemarks, hComment>>,
      <<hFuelType, hRemarks>> }

\* the field texts a column of the equipment file can hold
EqPoolFor(col) ==
    CASE col = EQUIPMENT_NAME -> {cExcavator}
      [] col = hFleetNo       -> {cEmpty, c12, cF1}
      [] col = hFleetIdPadded -> {cF2}
      [] col = hFuelIssued    -> {c2000}
      [] col = hFuelType      -> {cAbc}
      [] col = hRemarks       -> {cEmpty, cHaul}
      [] col = hComment       -> {cIdle}

EqRowPool(cols) ==
    {r \in [date : Days, cells : [1..Len(cols) -> {cExcavator, cEmpty, c12, cF1, cF2, c2000,
                                                    cAbc, cHaul, cIdle}]] :
        \A j \in 1..Len(cols) : r.cells[j] \in EqPoolFor(cols[j])}

\* the usual dipping file with one record
OneRecordDipping ==
    PresentFile(<<DIESEL_EXACT, BALANCE_COL>>, <<[date |-> 1, cells |-> <<c2000, c6000>>]>>)

InitEquipment ==
    /\ dippingFile = OneRecordDipping
    /\ \E cols \in EqRecordHeaderLists : \E n \in 0..MaxEqRows :
          \E rows \in [1..n -> EqRowPool(cols)] :
              equipmentFile = PresentFile(cols, rows)
    /\ pc = "start"
    /\ dipping_df = NoTable
    /\ equipment_df = NoEquipment
    /\ kpi = NoKpi
    /\ kpi_data = MakeKpiData(NoKpi)
    /\ cards = NoCards
    /\ tank = NoTank
    /\ rendered = {}
    /\ error = ""
    /\ raised = ""
    /\ month_selected = ""
    /\ month_df = <<>>
    /\ week_selected = 0
    /\ week_df = <<>>
    /\ FuelPageEntered
    /\ fnArg = <<>>
    /\ fnOut = <<>>

SpecEquipment == InitEquipment /\ [][Next]_vars

(* -------------- the pass on equipment files of many comments ---------- *)

\* most records, and most comment categories, of such an equipment file
MaxCategories == 6

\* the comment of category k
CategoryText(k) == <<"w">> \o NatText(k)

\* record k of such a file: of day k, with a fuel issued that is empty, 2000
\* or -5, in category k; the second record may be of the first category too
ActivityRowPool(k) ==
    {[date |-> k, cells |-> <<cExcavator, cF1, f, c>>] :
        f \in {cEmpty, c2000, cNeg},
        c \in {CategoryText(k)} \cup (IF k = 2 THEN {CategoryText(1)} ELSE {})}

\* the record lists of n records of such a file
RECURSIVE ActivityRowLists(_)
ActivityRowLists(n) ==
    IF n = 0 THEN {<<>>}
    ELSE {Append(l, r) : l \in ActivityRowLists(n - 1), r \in ActivityRowPool(n)}

InitActivity ==
    /\ dippingFile = OneRecordDipping
    /\ \E n \in 0..MaxCategories : \E rows \in ActivityRowLists(n) :
          equipmentFile = PresentFile(<<EQUIPMENT_NAME, hFleetNo, hFuelIssued, hComment>>, rows)
    /\ pc = "start"
    /\ dipping_df = NoTable
    /\ equipment_df = NoEquipment
    /\ kpi = NoKpi
    /\ kpi_data = MakeKpiData(NoKpi)
    /\ cards = NoCards
    /\ tank = NoTank
    /\ rendered = {}
    /\ error = ""
    /\ raised = ""
    /\ month_selected = ""
    /\ month_df = <<>>
    /\ week_selected = 0
    /\ week_df = <<>>
    /\ FuelPageEntered
    /\ fnArg = <<>>
    /\ fnOut = <<>>

SpecActivity == InitActivity /\ [][Next]_vars

(* ------------------------------ properties ---------------------------- *)

\* the KPI lines of the pass have run to their end
SnapshotMade == pc \in {"kpi", "report", "cards", "done"} \/ "kpi_cards" \in rendered

Positive(x) == ~x.nan /\ x.n > 0

\* C1 (as claimed): forecast_days_remaining is "unavailable", a value that is
\* not a number (for a float: NaN), exactly when latest_daily_usage is zero,
\* negative or missing, and a number in every other case.
C1_ForecastUnavailableIffNoUsage ==
    SnapshotMade => (IsNaN(kpi.forecast_days) <=> ~Positive(kpi.daily_latest))

\* C2: with a positive latest usage and a balance that is not missing,
\* forecast_days_remaining is max((available_balance - 5000) / latest_daily_usage, 0):
\* 0 when the balance is at most 5000, else the quotient (stated by
\* cross-multiplication).
C2_ForecastFormula ==
    (SnapshotMade /\ Positive(kpi.daily_latest) /\ ~IsNaN(kpi.available_l)) =>
        LET f == kpi.forecast_days
            a == kpi.available_l
            u == kpi.daily_latest
        IN  /\ ~IsNaN(f)
            /\ IF a.n > 5000 * a.d
               THEN f.n * u.n * a.d = (a.n - 5000 * a.d) * u.d * f.d
               ELSE f.n = 0

\* C2 witness: balance 6000 and usage 2000 give half a day
C2_Witness ==
    /\ SnapshotMade
    /\ kpi.daily_latest = Num(2000)
    /\ kpi.available_l = Num(6000)
    /\ kpi.forecast_days = Rat(1, 2)

\* C3 (as claimed): whenever latest_daily_usage is positive the forecast is a
\* number that is not negative, whatever the last record's balance is.
C3_ForecastNonNegative ==
    (SnapshotMade /\ HasCol(dipping_df, BALANCE_COL) /\ Positive(kpi.daily_latest)) =>
        (~IsNaN(kpi.forecast_days) /\ kpi.forecast_days.n >= 0)

\* the elements written before the load, and the two error messages
BeforeLoad == {"styles", "header"}

NothingComputed ==
    kpi = NoKpi /\ kpi_data = MakeKpiData(NoKpi) /\ cards = NoCards /\ tank = NoTank

LoadOver == pc \notin {"start", "header"}

\* C4: a dipping file with zero data rows ends the pass at the load: no KPI
\* value is computed and no card, chart or report is rendered, and when the
\* load itself returned (the equipment file is there and usable) the pass
\* reports EmptyDataset and stops.
C4_EmptyDatasetStops ==
    (dippingFile.present /\ dippingFile.rows = <<>> /\ LoadOver) =>
        /\ pc \in {"stopped", "raised"}
        /\ NothingComputed
        /\ rendered \subseteq BeforeLoad \cup {"error_empty", "error_missing"}
        /\ (equipmentFile.present /\ raised = "") =>
              (pc = "stopped" /\ error = "EmptyDataset" /\ "error_empty" \in rendered)

\* C4 witness: a header-only dipping file has been loaded and reported
C4_Witness ==
    /\ dippingFile.present /\ dippingFile.rows = <<>> /\ equipmentFile.present
    /\ pc = "stopped" /\ error = "EmptyDataset"

AFileIsMissing == ~dippingFile.present \/ ~equipmentFile.present

\* C5 (as claimed): with a file absent the pass reports MissingInputFile, not
\* EmptyDataset, and nothing of the view but that report is rendered.
C5_MissingFileNothingRendered ==
    (AFileIsMissing /\ LoadOver) =>
        /\ error = "MissingInputFile"
        /\ rendered \subseteq {"error_missing"}

\* C5 (amended): with a file absent the pass stops with MissingInputFile, not
\* EmptyDataset; the style block and the page header, written before the
\* load, are the only elements of the view on the page, and nothing is
\* computed.
C5_MissingFileOnlyHeader ==
    (AFileIsMissing /\ LoadOver) =>
        /\ pc = "stopped" /\ raised = ""
        /\ error = "MissingInputFile" /\ error # "EmptyDataset"
        /\ rendered = BeforeLoad \cup {"error_missing"}
        /\ NothingComputed

\* C5 witness: the dipping file is there, the equipment file is not
C5_Witness ==
    /\ dippingFile.present /\ ~equipmentFile.present
    /\ pc = "stopped" /\ error = "MissingInputFile"

\* a semantic field of one of the two header sets has no matching header
SomeFieldUnresolved ==
    \/ Resolve("diesel", clean_cols(dippingFile.cols)) = None
    \/ \E i \in {"fuel", "comment", "fleet"} :
         Resolve(i, clean_cols(equipmentFile.cols)) = None

\* the exceptions raised where an unresolved field is used
UnresolvedRaises == {"IndexError: diesel_col_candidates[0]", "KeyError: 'Equipment Name'"}

\* C6 (as claimed): when a semantic field has no matching header the pass
\* still completes: no use of the unresolved field raises.
C6_UnresolvedNeverFatal ==
    (dippingFile.present /\ equipmentFile.present /\ SomeFieldUnresolved) =>
        raised \notin UnresolvedRaises

\* what the claim's intents ask of a lowercased header
C7_Satisfies(intent, l) ==
    CASE intent = "diesel"  ->
           Contains(kwDiesel, l) /\ (Contains(kwIssued, l) \/ Contains(kwUsed, l))
      [] intent = "fuel"    ->
           Contains(kwFuel, l)
           /\ (Contains(kwIssued, l) \/ Contains(kwLts, l) \/ Contains(kwL, l))
      [] intent = "fleet"   -> Contains(kwFleet, l)
      [] intent = "comment" -> Contains(kwComment, l) \/ Contains(kwRemark, l)

C7_MatchingPositions ==
    {i \in 1..Len(fnArg.cols) : C7_Satisfies(fnArg.intent, Lower(Strip(fnArg.cols[i])))}

\* C7: the resolved column is the first header, in the order of the header
\* list, whose lowercased text satisfies the intent; with no such header the
\* result is None.
C7_FirstMatchInHeaderOrder ==
    pc = "resolved" =>
        IF C7_MatchingPositions = {}
        THEN fnOut = None
        ELSE \E i \in C7_MatchingPositions :
               /\ \A j \in C7_MatchingPositions : i <= j
               /\ fnOut = Strip(fnArg.cols[i])

\* C7 witness: two headers match and the earlier one is the resolved column
C7_Witness ==
    /\ pc = "resolved"
    /\ Cardinality(C7_MatchingPositions) = 2
    /\ fnOut = Strip(fnArg.cols[1])

\* the field text without its commas, by position
C8_NoCommas == SelectSeq(fnArg, LAMBDA c : c # ",")

\* the positions of C8_NoCommas that hold no blank
C8_Inked == {i \in 1..Len(C8_NoCommas) : C8_NoCommas[i] # " "}

\* the text is, commas and outer blanks aside, a decimal numeral with an
\* optional minus sign: one unbroken run of characters, digits and at most
\* one point after the sign, at least one digit
C8_IsNumeral ==
    LET t  == C8_NoCommas
        lo == CHOOSE i \in C8_Inked : \A j \in C8_Inked : i <= j
        hi == CHOOSE i \in C8_Inked : \A j \in C8_Inked : j <= i
    IN  /\ C8_Inked # {}
        /\ \A i \in lo..hi : i \in C8_Inked
        /\ \A i \in lo..hi : IsDigit(t[i]) \/ t[i] = "." \/ (t[i] = "-" /\ i = lo)
        /\ Cardinality({i \in lo..hi : t[i] = "."}) <= 1
        /\ \E i \in lo..hi : IsDigit(t[i])

\* the number that numeral writes
C8_Value ==
    LET t      == C8_NoCommas
        digits == SelectSeq(t, IsDigit)
        point  == {i \in 1..Len(t) : t[i] = "."}
        after  == IF point = {} THEN 0
                  ELSE Cardinality({i \in 1..Len(t) : IsDigit(t[i]) /\ \E p \in point : i > p})
        sign   == IF \E i \in 1..Len(t) : t[i] = "-" THEN -1 ELSE 1
    IN  Rat(sign * DigitsValue(digits), Pow10(after))

\* C8: the normalizer gives the number a field text writes once its commas
\* and the blanks around it are dropped ("1,234.50" gives 1234.50), and the
\* missing marker NaN, never 0, for every other text ("" and "abc" included).
C8_NormalizerParsesOrMissing ==
    pc = "normalized" =>
        /\ IF C8_IsNumeral THEN fnOut = C8_Value ELSE IsNaN(fnOut)
        /\ fnArg = c1234_50 => fnOut = Rat(123450, 100)
        /\ fnArg \in {cEmpty, cAbc} => IsNaN(fnOut)

\* C8 witness: "1,234.50" has been normalized to 1234.5
C8_Witness ==
    pc = "normalized" /\ fnArg = c1234_50 /\ fnOut = Rat(2469, 2)

\* C9 (as claimed): no cell of a column the pipeline converts to numbers
\* aborts the conversion or the pass, the fuzzily resolved usage column
\* included.
C9_UnparsableCellNeverAborts ==
    raised \notin {"ValueError: astype(float)", "TypeError: peak_day is text"}

\* the chronologically last records of the file: the positions of the
\* records no record is later than (several when the latest date repeats)
C10_LastRecords ==
    {i \in 1..Len(dippingFile.rows) :
        \A j \in 1..Len(dippingFile.rows) :
            dippingFile.rows[j].date <= dippingFile.rows[i].date}

\* the balance of record i as a number, NaN when the field or the column is
\* missing
C10_Balance(i) ==
    LET k == ColIndex(clean_cols(dippingFile.cols), BALANCE_COL)
    IN  IF k = 0 THEN NaN ELSE NormalizeText(dippingFile.rows[i].cells[k])

UsagePosition ==
    LET cols == clean_cols(dippingFile.cols)
        hits == {k \in 1..Len(cols) : C7_Satisfies("diesel", Lower(cols[k]))}
    IN  IF hits = {} THEN 0 ELSE CHOOSE k \in hits : \A h \in hits : k <= h

\* the usages of the records of the file as numbers, NaN where the field or
\* the column is missing
Usages ==
    LET k == UsagePosition
    IN  [i \in 1..Len(dippingFile.rows) |->
           IF k = 0 THEN NaN ELSE NormalizeText(dippingFile.rows[i].cells[k])]

UsageOf(i) == Usages[i]

ZeroWhenMissing(x) == IF IsNaN(x) THEN Num(0) ELSE x

\* C11 (as claimed): latest_daily_usage is the usage of a chronologically
\* last record, and 0 when that usage is missing, in the KPI variables, on
\* the KPI card and in the report data.
C11_LatestUsageZeroWhenMissing ==
    SnapshotMade =>
        \E i \in C10_LastRecords :
            /\ kpi.daily_latest = ZeroWhenMissing(UsageOf(i))
            /\ kpi_data.daily_consumption = ZeroWhenMissing(UsageOf(i))
            /\ "kpi_cards" \in rendered => cards.daily_latest = ZeroWhenMissing(UsageOf(i))

\* the positions of u that hold a number
PresentIn(u) == {i \in DOMAIN u : ~IsNaN(u[i])}

\* the records whose usage is not missing
PresentUsages == PresentIn(Usages)

\* the sum of the values of u at the positions in S
RECURSIVE SumAt(_, _)
SumAt(u, S) ==
    IF S = {} THEN Num(0)
    ELSE LET i == CHOOSE x \in S : TRUE IN FAdd(u[i], SumAt(u, S \ {i}))

\* x <= y for two numbers
Leq(x, y) == ~x.nan /\ ~y.nan /\ x.n * y.d <= y.n * x.d

\* C12: when some usage is present, average_daily_usage is the sum of the
\* present usages divided by the number of records that have one (missing
\* usages are in neither), in the KPI variables, on the card and in the
\* report data.
C12_MeanOfPresentUsages ==
    SnapshotMade =>
        LET u    == Usages
            p    == PresentIn(u)
            mean == FDiv(SumAt(u, p), Num(Cardinality(p)))
        IN  p # {} =>
              /\ kpi.avg_daily = mean
              /\ kpi_data.avg_daily = mean
              /\ "kpi_cards" \in rendered => cards.avg_daily = mean

\* C12 witness: two records, one without a usage and one with 2000; the
\* card shows 2000, not 1000
C12_Witness ==
    /\ "kpi_cards" \in rendered
    /\ Len(dippingFile.rows) = 2
    /\ Cardinality(PresentUsages) = 1
    /\ cards.avg_daily = Num(2000)

\* C13: when some usage is present, peak_daily_usage is the usage of one of
\* the records and no record has a larger one.
C13_PeakIsLargestUsage ==
    SnapshotMade =>
        LET u == Usages
            p == PresentIn(u)
        IN  p # {} =>
              /\ \E i \in p : kpi.peak_day = u[i]
              /\ \A j \in p : Leq(u[j], kpi.peak_day)
              /\ kpi_data.peak_day = kpi.peak_day
              /\ "kpi_cards" \in rendered => cards.peak_day = kpi.peak_day

\* C13 witness: a record without a usage beside one with 2000, and two
\* records with different usages: the peak is the larger one
C13_Witness ==
    /\ "kpi_cards" \in rendered
    /\ Len(dippingFile.rows) = 2
    /\ \/ Cardinality(PresentUsages) = 1 /\ cards.peak_day = Num(2000)
       \/ UsageOf(1) = Num(2000) /\ UsageOf(2) = Num(0) /\ cards.peak_day = Num(2000)

\* C14 (as claimed): when some usage is present, 0 <= average <= peak.
C14_AverageBetweenZeroAndPeak ==
    (SnapshotMade /\ PresentUsages # {}) =>
        (Leq(Num(0), kpi.avg_daily) /\ Leq(kpi.avg_daily, kpi.peak_day))

\* C14 (amended): when some usage is present, the average lies between the
\* smallest present usage and the peak; it is at least 0 when no present
\* usage is negative.
C14_AverageBetweenSmallestAndPeak ==
    SnapshotMade =>
        LET u == Usages
            p == PresentIn(u)
        IN  p # {} =>
              /\ Leq(kpi.avg_daily, kpi.peak_day)
              /\ \E i \in p : Leq(u[i], kpi.avg_daily)
              /\ (\A i \in p : Leq(Num(0), u[i])) => Leq(Num(0), kpi.avg_daily)

\* C14 witness: usages 0 and 2000 give the average 1000 under the peak 2000
C14_Witness ==
    /\ SnapshotMade
    /\ kpi.avg_daily = Num(1000)
    /\ kpi.peak_day = Num(2000)

C16_Expected ==
    [available_l |-> Num(6000), daily_latest |-> Num(2000), avg_daily |-> Rat(5500, 3),
     peak_day |-> Num(2000), forecast_days |-> Rat(1, 2), tank_level_pct |-> Num(10)]

\* C16: for the three records of the scenario, in any file order, the pass
\* never stops or raises, and once the KPI lines have run the snapshot is
\* available 6000, latest 2000, average 5500/3, peak 2000, forecast 1/2 day
\* and tank level 10 percent, in the KPI variables, in the report data, on
\* the cards and on the gauge.
C16_ScenarioSnapshot ==
    /\ pc \notin {"stopped", "raised"}
    /\ SnapshotMade =>
         /\ \A f \in DOMAIN C16_Expected : kpi[f] = C16_Expected[f]
         /\ kpi_data = [available_fuel    |-> Num(6000),
                        daily_consumption |-> Num(2000),
                        avg_daily         |-> Rat(5500, 3),
                        peak_day          |-> Num(2000),
                        forecast_days     |-> Rat(1, 2),
                        tank_level_pct    |-> Num(10)]
         /\ "kpi_cards" \in rendered =>
               \A f \in DOMAIN cards : cards[f] = C16_Expected[f]
         /\ "tank_gauge" \in rendered =>
               tank = [value |-> Num(10), forecast_text |-> "Days Until 5,000L"]

\* C16 witness: the file lists the records latest first, and the page is
\* complete
C16_Witness ==
    /\ pc = "done"
    /\ dippingFile.rows[1].date > dippingFile.rows[2].date
    /\ dippingFile.rows[2].date > dippingFile.rows[3].date
    /\ cards.avg_daily = Rat(5500, 3)
    /\ kpi.forecast_days = Rat(1, 2)
    /\ tank.value = Num(10)

\* C17 (as claimed): when no record has a usage, the average, the peak and
\* the forecast are "unavailable", values that are not numbers (for a float:
\* NaN) and in particular not 0, in the KPI variables and in the report data.
C17_AllMissingAllUnavailable ==
    (SnapshotMade /\ PresentUsages = {}) =>
        /\ IsNaN(kpi.avg_daily) /\ IsNaN(kpi.peak_day) /\ IsNaN(kpi.forecast_days)
        /\ IsNaN(kpi_data.avg_daily) /\ IsNaN(kpi_data.peak_day)
        /\ IsNaN(kpi_data.forecast_days)

\* the day of the month of the date the index was computed for
C18_Day == Timestamp(fnArg).day

\* C18: the week-of-month index of a date is 1 for the days 1-7 of its
\* month, 2 for 8-14, 3 for 15-21, 4 for 22-28 and 5 for 29-31, so it is
\* always one of 1..5 and 7 * (index - 1) < day <= 7 * index.
C18_WeekOfMonthTable ==
    pc = "week_done" =>
        /\ C18_Day \in 1..31
        /\ fnOut \in 1..5
        /\ C18_Day \in 1..7   => fnOut = 1
        /\ C18_Day \in 8..14  => fnOut = 2
        /\ C18_Day \in 15..21 => fnOut = 3
        /\ C18_Day \in 22..28 => fnOut = 4
        /\ C18_Day \in 29..31 => fnOut = 5
        /\ 7 * (fnOut - 1) < C18_Day /\ C18_Day <= 7 * fnOut

\* C18 witness: the 29th of a month is in week 5
C18_Witness ==
    pc = "week_done" /\ C18_Day = 29 /\ fnOut = 5

\* the index labels of the rows of a month or week table
IndexSet(rows) == {rows[i].index : i \in 1..Len(rows)}

\* the (month, week) choices the two select boxes offer for the loaded table
BucketChoices ==
    {c \in {<<unique_months(dipping_df)[k], w>> :
               k \in 1..Len(unique_months(dipping_df)), w \in 1..5} :
        c[2] \in week_options(MonthDf(dipping_df, c[1], TRUE))}

\* the records shown for a choice
BucketOf(c) == IndexSet(WeekRows(MonthDf(dipping_df, c[1], TRUE), c[2]))

\* S is a run of consecutive positions of the date-ordered table
IsRun(S) == \A i, j \in S : \A k \in i..j : k \in S

\* C19 (as claimed): once the drill-down is on the page, every record of the
\* date-ordered table is in exactly one (month name, week) bucket, the week
\* table shown holds each record of the chosen bucket once, and every bucket
\* is a run of consecutive records of the date-ordered table.
C19_BucketsPartitionInRuns ==
    pc = "done" =>
        /\ \A i \in 1..Len(dipping_df.rows) :
              Cardinality({c \in BucketChoices : i \in BucketOf(c)}) = 1
        /\ IndexSet(week_df) = BucketOf(<<month_selected, week_selected>>)
        /\ Len(week_df) = Cardinality(IndexSet(week_df))
        /\ \A c \in BucketChoices : IsRun(BucketOf(c))

\* the records of the dipping file as the load holds them before the sort
C20_Unsorted ==
    LET d0 == read_csv(dippingFile)
    IN  NormalizeNumCols([d0 EXCEPT !.cols = clean_cols(d0.cols)]).rows

\* p places the records by date, and the records of one date in file order
C20_KeepsFileOrder(p) ==
    \A i, j \in DOMAIN p :
        i < j => \/ C20_Unsorted[p[i]].date < C20_Unsorted[p[j]].date
                 \/ C20_Unsorted[p[i]].date = C20_Unsorted[p[j]].date /\ p[i] < p[j]

\* C20 (as claimed): the loaded table holds the records of the file by
\* ascending date, the records of one date in file order, so that its last
\* row is the record listed last in the file among those of the latest date.
C20_SortedKeepingFileOrder ==
    (dipping_df.rows # <<>> /\ ~HasCol(dipping_df, ISOWEEK_COL)) =>
        /\ \A p \in Permutations(1..Len(C20_Unsorted)) :
              C20_KeepsFileOrder(p) =>
                 dipping_df.rows = [i \in 1..Len(C20_Unsorted) |-> C20_Unsorted[p[i]]]
        /\ \E k \in C10_LastRecords :
              /\ \A j \in C10_LastRecords : j <= k
              /\ latest_row(dipping_df) = C20_Unsorted[k]

\* the latest usage, the average and the peak are those of column c
C27_ReadFrom(c) ==
    LET col  == Column(dipping_df, c)
        vals == [i \in 1..Len(col) |-> CellToNumeric(col[i])]
    IN  /\ kpi.daily_latest = vals[Len(vals)]
        /\ kpi.avg_daily = Mean(vals)
        /\ kpi.peak_day = SeriesMax(vals)

\* C27 (as claimed): in every KPI snapshot of a table with a usage column,
\* the latest usage, the average and the peak are read from one and the same
\* column that reads as diesel issued/used, also when the exact header stands
\* beside an earlier header of that kind.
C27_OneUsageColumn ==
    (SnapshotMade /\ kpi.diesel_col_candidates # <<>>) =>
        \E k \in 1..Len(dipping_df.cols) :
            /\ C7_Satisfies("diesel", Lower(dipping_df.cols[k]))
            /\ C27_ReadFrom(dipping_df.cols[k])

\* C28 (as claimed): once kpi_data is built, each of its six values is a
\* number, none is NaN, also when the last record has no balance or no usage.
C28_ReportValuesAreNumbers ==
    SnapshotMade => \A f \in DOMAIN kpi_data : ~IsNaN(kpi_data[f])

\* a pass that has the tables of the load and has not yet written to them
C22_HoldsLoadedTables ==
    \/ pc \in {"loaded", "kpi", "report", "cards"}
    \/ pc = "stopped" /\ error = "EmptyDataset"

\* C22: once a load has succeeded its result is cached for the rest of the
\* session, the body of load_and_prepare (the parse of the two files) never
\* runs again, and every view pass gets the cached tables, the same ones the
\* first view got.
C22_CachedTablesReused ==
    /\ [][cache.hit => (parses' = parses /\ cache' = cache)]_vars
    /\ []((cache.hit /\ C22_HoldsLoadedTables) =>
             (dipping_df = cache.dipping /\ equipment_df = cache.equipment))

\* C22 witness: a pass after the one that loaded has its two records from
\* the cache, the files parsed once
C22_Witness ==
    /\ pc = "loaded"
    /\ parses = 1
    /\ \E r \in resolutions : r.line = 634 /\ r.pass < passes
    /\ Len(dipping_df.rows) = 2
    /\ dipping_df = cache.dipping

\* C23 (as claimed): every resolution of a semantic field is one of the load:
\* none is done after the load has returned, in the same pass or a later one.
C23_ResolvedOnlyInsideLoad ==
    \A r \in resolutions : r.line \in {x.line : x \in LoadResolutions}

\* C26 (as claimed): whatever section is chosen, the router calls a page
\* function that is defined, no NameError is raised, and a page other than
\* the Fuel Farm is rendered without an error.
C26_EverySectionRouted ==
    pc # "router" =>
        /\ page \in DefinedPages
        /\ page = RouteTarget(section)
        /\ raised # "NameError: name 'page_fleet' is not defined"
        /\ page # "page_fuel" => (pc = "page_done" /\ page \in rendered /\ raised = "")

\* the tables a run of the body of load_and_prepare can return for the files
C29_LoadResults ==
    {[dipping |-> r.dipping, equipment |-> r.equipment] :
        r \in {x \in load_and_prepare(dippingFile, equipmentFile) : x.exc = ""}}

\* C29: the cached tables are never changed by a pass: the entry stays what
\* the first successful load stored, a result of the load with neither an
\* ISOWeek nor a MonthName column, while the pass adds both to its own table.
C29_PassLeavesCacheAlone ==
    /\ [][cache.hit => cache' = cache]_vars
    /\ [](cache.hit =>
            /\ [dipping |-> cache.dipping, equipment |-> cache.equipment] \in C29_LoadResults
            /\ ~HasCol(cache.dipping, ISOWEEK_COL)
            /\ ~HasCol(cache.dipping, MONTHNAME_COL))
    /\ []((pc = "done" /\ page = "page_fuel") =>
            (HasCol(dipping_df, ISOWEEK_COL) /\ HasCol(dipping_df, MONTHNAME_COL)))

\* C29 witness: the second Fuel Farm pass of a session is complete, its table
\* has the two period columns and the cached table has not
C29_Witness ==
    /\ pc = "done"
    /\ parses = 1
    /\ \E r \in resolutions : r.line = 634 /\ r.pass < passes
    /\ HasCol(dipping_df, ISOWEEK_COL)
    /\ ~HasCol(cache.dipping, ISOWEEK_COL)

\* the position of the first header of the equipment file that reads as the
\* field, 0 when none does
C21_FirstHeader(intent) ==
    LET cols == clean_cols(equipmentFile.cols)
        hits == {k \in 1..Len(cols) : C7_Satisfies(intent, Lower(cols[k]))}
    IN  IF hits = {} THEN 0 ELSE CHOOSE k \in hits : \A h \in hits : k <= h

\* text t is the value of cell c: the same text, the same number, or 'nan'
\* for a value that is missing
C21_IsValueOf(t, c) ==
    IF ~c.isnum THEN t = c.str
    ELSE IF IsNaN(c.num) THEN t = cNanText
    ELSE ToNumericCoerce(t) = c.num

C21_Canonical(row, col) == row.cells[ColIndex(equipment_df.cols, col)].str

\* C21: in every loaded equipment table, the fleet identifier of each record
\* is the record's value under the first header that contains 'fleet' (in
\* any case), and its equipment name when no header does; its comment is the
\* value under the first header that contains 'comment' or 'remark', and
\* "Unknown" when no header does.
C21_FleetAndCommentFallBack ==
    \A i \in 1..Len(equipment_df.rows) :
        LET row     == equipment_df.rows[i]
            fleet   == C21_FirstHeader("fleet")
            comment == C21_FirstHeader("comment")
            name    == ColIndex(clean_cols(equipmentFile.cols), EQUIPMENT_NAME)
        IN  /\ C21_IsValueOf(C21_Canonical(row, FLEET_COL),
                             row.cells[IF fleet # 0 THEN fleet ELSE name])
            /\ IF comment # 0
               THEN C21_IsValueOf(C21_Canonical(row, COMMENT_COL), row.cells[comment])
               ELSE C21_Canonical(row, COMMENT_COL) = UNKNOWN

\* C21 witness: two records of a file with neither header are loaded with
\* the equipment name as fleet identifier and the comment "Unknown"
C21_Witness ==
    /\ Len(equipment_df.rows) = 2
    /\ C21_FirstHeader("fleet") = 0
    /\ C21_FirstHeader("comment") = 0
    /\ C21_Canonical(equipment_df.rows[1], FLEET_COL) = cExcavator
    /\ C21_Canonical(equipment_df.rows[2], COMMENT_COL) = UNKNOWN

\* the fuel issued of the records of the equipment file as numbers, NaN where
\* the field is empty or there is no fuel header
C30_Issued ==
    LET k == C21_FirstHeader("fuel")
    IN  [i \in 1..Len(equipmentFile.rows) |->
           IF k = 0 THEN NaN ELSE NormalizeText(equipmentFile.rows[i].cells[k])]

\* the sum of fuel issued over all records, the missing ones left out
C30_Total == LET u == C30_Issued IN SumAt(u, PresentIn(u))

\* the sum of the values of a set of slices
RECURSIVE C30_SumOfSlices(_)
C30_SumOfSlices(S) ==
    IF S = {} THEN Num(0)
    ELSE LET x == CHOOSE y \in S : TRUE IN FAdd(x.value, C30_SumOfSlices(S \ {x}))

\* C30 (as claimed): the values of the slices of the pie add up to the fuel
\* issued over all equipment records.
C30_SlicesAccountForAll ==
    "activity_chart" \in rendered => C30_SumOfSlices(activity_chart) = C30_Total

\* C30 (amended): the pie has at most five comment slices; the fuel they leave
\* out is shown as 'Other Works' exactly when it is more than 0, and then in
\* full; so the slices add up to all fuel issued unless what the five largest
\* totals leave out is negative.
C30_SlicesAccountForAllButNegativeRest ==
    "activity_chart" \in rendered =>
        LET top    == {x \in activity_chart : ~x.others}
            others == {x \in activity_chart : x.others}
            rest   == FSub(C30_Total, C30_SumOfSlices(top))
        IN  /\ Cardinality(top) <= 5
            /\ (others # {}) <=> FGt(rest, Num(0))
            /\ \A x \in others : x.label = OTHER_WORKS /\ x.value = rest
            /\ ~FGt(Num(0), rest) => C30_SumOfSlices(activity_chart) = C30_Total

\* C30 witness: six comments of 2000 each: five slices and 'Other Works' with
\* the 2000 of the sixth, 12000 in all
C30_Witness ==
    /\ "activity_chart" \in rendered
    /\ Cardinality(activity_chart) = 6
    /\ \E x \in activity_chart : x.others /\ x.value = Num(2000)
    /\ C30_Total = Num(12000)

====
